---- MODULE Spec2Model ----
(***************************************************************************)
(* Model of the metadata reconciler scripts/task1_make_plots_A.py:         *)
(* normalize_label, row_has_all_modalities, autodetect_label_col and main. *)
(*                                                                         *)
(* Python text is a TLA+ string; TLC evaluates Len, SubSeq and \o on       *)
(* strings, so every text operation below works character by character.   *)
(* Three characters outside ASCII are written with a stand-in that no      *)
(* label, column or group name of the model uses otherwise: the            *)
(* non-breaking space U+00A0 is "~", the en dash U+2013 is "^" and the em  *)
(* dash U+2014 is "|".                                                     *)
(***************************************************************************)
EXTENDS Integers, Sequences, FiniteSets, TLC

VARIABLES
    nx,          \* normalize_label: the argument x (a Python value)
    nres,        \* normalize_label: its outcome, NoResult before the call
    nagain,      \* normalize_label: the outcome of the call on that outcome's label
    cols,        \* autodetect_label_col: df.columns, in order
    detected,    \* autodetect_label_col: the returned name
    meta,        \* main: the table in the file --meta, [columns, rows]
    argv,        \* main: the value of --label-col
    pc,          \* main: the statement reached
    df,          \* main: the DataFrame df, [columns, rows]
    label_col,   \* main: label_col
    group_masks, \* main: group_masks, per group one boolean per row
    group_counts,\* main: group_counts
    class_counts,\* main: class_counts
    out_dir,     \* main: the files written under --out, name -> contents
    error,       \* main: the exception that ended the run
    run,         \* main: the number of the invocation (1 or 2) on this input
    first,       \* main: what the first invocation ended with, NoRun before that
    ds,          \* download: the items of the split, in index order
    exclude,     \* download: the institutions of --exclude
    max_samples, \* download: the value of --max-samples
    all_mods,    \* download: all_mods
    idx,         \* download: the index the loop visits next
    visited,     \* download: the indices whose loop body has run
    saved,       \* download: saved
    errors,      \* download: errors
    meta_records,\* download: meta_records
    disk,        \* download: the volume files written, <<Institution, UID, Modality>>
    csv,         \* download: metadata.csv, [written, rows]; NoCsv when not written
    dpc          \* download: the statement reached

normVars == <<nx, nres, nagain>>
colsVars == <<cols, detected>>
rerunVars == <<run, first>>
mainVars == <<meta, argv, pc, df, label_col, group_masks, group_counts, class_counts,
              out_dir, error, run, first>>
dlVars == <<ds, exclude, max_samples, all_mods, idx, visited, saved, errors,
            meta_records, disk, csv, dpc>>
vars == <<nx, nres, nagain, cols, detected, meta, argv, pc, df, label_col, group_masks,
          group_counts, class_counts, out_dir, error, run, first, ds, exclude,
          max_samples, all_mods, idx, visited, saved, errors, meta_records, disk, csv,
          dpc>>

(***************************************************************************)
(* Bounds of the model.                                                    *)
(***************************************************************************)
MaxParts == 3      \* tokens concatenated into a generated label text
MaxCols == 3       \* columns in a generated header
MaxRows == 2       \* rows of a generated metadata table
MaxItems == 3      \* items of the downloaded split
MaxSamples == 2    \* largest value of --max-samples

(***************************************************************************)
(* Python values: text, int, float (sign, integer part, one fractional     *)
(* digit), nan, +-inf, bool.  One record shape for all of them.            *)
(***************************************************************************)
PyVal(t, s, neg, ip, fd) == [t |-> t, s |-> s, neg |-> neg, ip |-> ip, fd |-> fd]
PyText(s) == PyVal("str", s, FALSE, 0, 0)
PyInt(n) == PyVal("int", "", n < 0, IF n < 0 THEN -n ELSE n, 0)
PyFloat(neg, ip, fd) == PyVal("float", "", neg, ip, fd)
PyNaN == PyVal("nan", "", FALSE, 0, 0)
PyInf(neg) == PyVal("inf", "", neg, 0, 0)
PyBool(b) == PyVal("bool", "", FALSE, IF b THEN 1 ELSE 0, 0)

(***************************************************************************)
(* Text primitives of the Python runtime.  Every operator hands the values *)
(* it computes to a helper as arguments, so each is computed once.         *)
(***************************************************************************)
CharAt(s, i) == SubSeq(s, i, i)

DigitChars == {"0", "1", "2", "3", "4", "5", "6", "7", "8", "9"}
DigitText == <<"0", "1", "2", "3", "4", "5", "6", "7", "8", "9">>
DigitOf ==
    [c \in DigitChars |->
        CASE c = "0" -> 0 [] c = "1" -> 1 [] c = "2" -> 2 [] c = "3" -> 3 [] c = "4" -> 4
          [] c = "5" -> 5 [] c = "6" -> 6 [] c = "7" -> 7 [] c = "8" -> 8 [] c = "9" -> 9]

\* the lower-case letter of every upper-case letter
LowerOf ==
    "A" :> "a" @@ "B" :> "b" @@ "C" :> "c" @@ "D" :> "d" @@ "E" :> "e" @@ "F" :> "f" @@
    "G" :> "g" @@ "H" :> "h" @@ "I" :> "i" @@ "J" :> "j" @@ "K" :> "k" @@ "L" :> "l" @@
    "M" :> "m" @@ "N" :> "n" @@ "O" :> "o" @@ "P" :> "p" @@ "Q" :> "q" @@ "R" :> "r" @@
    "S" :> "s" @@ "T" :> "t" @@ "U" :> "u" @@ "V" :> "v" @@ "W" :> "w" @@ "X" :> "x" @@
    "Y" :> "y" @@ "Z" :> "z"

\* str.strip() with no argument removes Unicode whitespace, U+00A0 included
IsSpace(c) == c \in {" ", "~"}

\* str.lower() on one character
LowerChar(c) == IF c \in DOMAIN LowerOf THEN LowerOf[c] ELSE c

\* str.lower()
RECURSIVE LowerFrom(_, _)
LowerFrom(s, i) ==
    IF i > Len(s) THEN "" ELSE LowerChar(SubSeq(s, i, i)) \o LowerFrom(s, i + 1)

Lower(s) == LowerFrom(s, 1)

SetMin(S) == CHOOSE i \in S : \A j \in S : i <= j

\* the first position from i on, and the last position up to i, that holds
\* no whitespace (Len(s) + 1 and 0 when there is none)
RECURSIVE FirstKept(_, _)
FirstKept(s, i) ==
    IF i > Len(s) THEN i
    ELSE IF IsSpace(SubSeq(s, i, i)) THEN FirstKept(s, i + 1) ELSE i

RECURSIVE LastKept(_, _)
LastKept(s, i) ==
    IF i < 1 THEN i
    ELSE IF IsSpace(SubSeq(s, i, i)) THEN LastKept(s, i - 1) ELSE i

\* str.strip()
Strip(s) == SubSeq(s, FirstKept(s, 1), LastKept(s, Len(s)))

\* sub in s
Contains(s, sub) ==
    \E i \in 1..(Len(s) - Len(sub) + 1) : SubSeq(s, i, i + Len(sub) - 1) = sub

StartsWith(s, pre) == Len(s) >= Len(pre) /\ SubSeq(s, 1, Len(pre)) = pre

\* s.replace(c, d) for a one-character c and a text d
RECURSIVE ReplaceFrom(_, _, _, _)
ReplaceFrom(s, c, d, i) ==
    IF i > Len(s) THEN ""
    ELSE (IF SubSeq(s, i, i) = c THEN d ELSE SubSeq(s, i, i)) \o ReplaceFrom(s, c, d, i + 1)

ReplaceChar(s, c, d) == ReplaceFrom(s, c, d, 1)
RemoveChar(s, c) == ReplaceFrom(s, c, "", 1)

\* str(n) for n >= 0
RECURSIVE NatToStr(_)
NatToStr(n) ==
    IF n < 10 THEN DigitText[n + 1] ELSE NatToStr(n \div 10) \o DigitText[(n % 10) + 1]

\* the number written by the first n characters of the digit text d
RECURSIVE DigitsValue(_, _)
DigitsValue(d, n) ==
    IF n = 0 THEN 0 ELSE 10 * DigitsValue(d, n - 1) + DigitOf[SubSeq(d, n, n)]

StrToNat(d) == DigitsValue(d, Len(d))

\* str(x)
SignText(x) == IF x.neg THEN "-" ELSE ""
PyStr(x) ==
    CASE x.t = "str" -> x.s
      [] x.t = "int" -> SignText(x) \o NatToStr(x.ip)
      [] x.t = "float" -> SignText(x) \o NatToStr(x.ip) \o "." \o NatToStr(x.fd)
      [] x.t = "nan" -> "nan"
      [] x.t = "inf" -> SignText(x) \o "inf"
      [] x.t = "bool" -> IF x.ip = 1 THEN "True" ELSE "False"

(***************************************************************************)
(* float(text).  The grammar modelled: surrounding whitespace, an optional *)
(* sign, then nan | inf | infinity (any case) or digits [ "." digits ]     *)
(* with at least one digit, an underscore allowed only between two digits. *)
(* Exponents are not modelled: no generated input has a digit followed by  *)
(* "e".  Of the value the sign and the integer part are kept, which is     *)
(* what int() needs; with at most 15 significant digits truncation of the  *)
(* double equals truncation of the decimal.                                *)
(***************************************************************************)
\* digits and underscores only, every underscore between two digits
DigitRun(s) ==
    \A i \in 1..Len(s) :
        \/ SubSeq(s, i, i) \in DigitChars
        \/ /\ SubSeq(s, i, i) = "_"
           /\ i > 1 /\ SubSeq(s, i - 1, i - 1) \in DigitChars
           /\ i < Len(s) /\ SubSeq(s, i + 1, i + 1) \in DigitChars

NotANumber == [ok |-> FALSE, kind |-> "none", neg |-> FALSE, ip |-> 0]
Number(kind, neg, ip) == [ok |-> TRUE, kind |-> kind, neg |-> neg, ip |-> ip]

\* the integer part ip and the fraction fp, both without the dot
ParseParts(ip, fp, neg) ==
    IF DigitRun(ip) /\ DigitRun(fp) /\ (ip # "" \/ fp # "")
    THEN Number("fin", neg, StrToNat(RemoveChar(ip, "_")))
    ELSE NotANumber

\* r holds at most one dot, at position d (Len(r) + 1 when it holds none)
SplitAt(r, d, neg) == ParseParts(SubSeq(r, 1, d - 1), SubSeq(r, d + 1, Len(r)), neg)

ParseDecimal(r, dots, neg) ==
    IF Cardinality(dots) > 1 THEN NotANumber
    ELSE IF dots = {} THEN SplitAt(r, Len(r) + 1, neg)
    ELSE SplitAt(r, SetMin(dots), neg)

ParseWord(r, low, neg) ==
    IF low = "nan" THEN Number("nan", neg, 0)
    ELSE IF low \in {"inf", "infinity"} THEN Number("inf", neg, 0)
    ELSE ParseDecimal(r, {i \in 1..Len(r) : SubSeq(r, i, i) = "."}, neg)

ParseUnsigned(r, neg) == ParseWord(r, Lower(r), neg)

ParseSigned(t, sign) ==
    ParseUnsigned(IF sign \in {"+", "-"} THEN SubSeq(t, 2, Len(t)) ELSE t, sign = "-")

ParseStripped(t) == ParseSigned(t, IF t = "" THEN "" ELSE SubSeq(t, 1, 1))

ParseFloat(text) == ParseStripped(Strip(text))

(***************************************************************************)
(* normalize_label                                                         *)
(***************************************************************************)
\* _LABEL_MAP_INT
LabelMapIntSwapped == [i \in 0..2 |-> <<"benign", "malignant", "no lesion">>[i + 1]]
LABEL_MAP_INT == [i \in 0..2 |-> <<"malignant", "benign", "no lesion">>[i + 1]]

Classes == <<"malignant", "benign", "no lesion">>

\* int(p) for the float p: int() truncates toward zero, raises ValueError on
\* nan and OverflowError on an infinity; float() has raised ValueError on
\* text that is no number.
IntOf(p) ==
    IF ~p.ok \/ p.kind = "nan" THEN [exc |-> "ValueError", i |-> 0]
    ELSE IF p.kind = "inf" THEN [exc |-> "OverflowError", i |-> 0]
    ELSE [exc |-> "", i |-> IF p.neg THEN -p.ip ELSE p.ip]

IntOfFloat(text) == IntOf(ParseFloat(text))

\* the try block: "return" with the mapped label, "raise" with the exception,
\* or "pass" when i is no key of the table
TryBlock(c, table) ==
    IF c.exc # "" THEN [kind |-> "raise", exc |-> c.exc, val |-> ""]
    ELSE IF c.i \in DOMAIN table THEN [kind |-> "return", exc |-> "", val |-> table[c.i]]
    ELSE [kind |-> "pass", exc |-> "", val |-> ""]

NumericAttempt(x) == TryBlock(IntOfFloat(Strip(PyStr(x))), LABEL_MAP_INT)

\* except Exception: ValueError and OverflowError are both Exception subclasses
ExceptCatchesValueErrorOnly(exc) == exc = "ValueError"
ExceptCatches(exc) == exc \in {"ValueError", "OverflowError"}

\* the text rules on s = str(x).strip().lower()
TextRulesWithNone(s) ==
    IF Contains(s, "malig") THEN "malignant"
    ELSE IF Contains(s, "benig") THEN "benign"
    ELSE IF (Contains(s, "no") /\ Contains(s, "lesion")) \/ s \in {"nolesion", "none"}
        THEN "no lesion"
    ELSE IF s \in {"0", "1", "2"} THEN LABEL_MAP_INT[StrToNat(s)]
    ELSE s
TextRules(s) ==
    IF Contains(s, "malig") THEN "malignant"
    ELSE IF Contains(s, "benig") THEN "benign"
    ELSE IF (Contains(s, "no") /\ Contains(s, "lesion")) \/ s = "nolesion" THEN "no lesion"
    ELSE IF s \in {"0", "1", "2"} THEN LABEL_MAP_INT[StrToNat(s)]
    ELSE s

\* what leaves the function once the try block ended as a: raised = an
\* exception the except clause does not catch
OutcomeTagged(a, x) ==
    IF a.kind = "return" THEN [raised |-> FALSE, val |-> a.val]
    ELSE IF a.kind = "raise" /\ ~ExceptCatches(a.exc) THEN [raised |-> TRUE, val |-> a.exc]
    ELSE [raised |-> FALSE, val |-> "?" \o TextRules(Lower(Strip(PyStr(x))))]
Outcome(a, x) ==
    IF a.kind = "return" THEN [raised |-> FALSE, val |-> a.val]
    ELSE IF a.kind = "raise" /\ ~ExceptCatches(a.exc) THEN [raised |-> TRUE, val |-> a.exc]
    ELSE [raised |-> FALSE, val |-> TextRules(Lower(Strip(PyStr(x))))]

normalize_label(x) == Outcome(NumericAttempt(x), x)

NoResult == [raised |-> FALSE, val |-> "<not called>"]

(***************************************************************************)
(* The parts of the state a specification does not use stay at rest.       *)
(***************************************************************************)
NoTable == [columns |-> <<>>, rows |-> <<>>]
NoFiles == <<>>
NoRun == <<>>

NormIdle == nx = PyText("") /\ nres = NoResult /\ nagain = NoResult
ColsIdle == cols = <<>> /\ detected = "<not called>"
MainIdle ==
    /\ meta = NoTable
    /\ argv = ""
    /\ pc = "idle"
    /\ df = NoTable
    /\ label_col = ""
    /\ group_masks = <<>>
    /\ group_counts = <<>>
    /\ class_counts = <<>>
    /\ out_dir = NoFiles
    /\ error = ""
    /\ run = 1
    /\ first = NoRun

NoCsv == [written |-> FALSE, rows |-> <<>>]
DownloadIdle ==
    /\ ds = <<>>
    /\ exclude = {}
    /\ max_samples = 0
    /\ all_mods = <<>>
    /\ idx = 0
    /\ visited = {}
    /\ saved = 0
    /\ errors = 0
    /\ meta_records = <<>>
    /\ disk = {}
    /\ csv = NoCsv
    /\ dpc = "idle"

(***************************************************************************)
(* Inputs of normalize_label: the label values the specification names,    *)
(* every text of at most MaxParts tokens, and numbers.                     *)
(***************************************************************************)
NamedLabels ==
    {"0", "1", "2", "Malignant", "MALIG", "malig_type_a", "No Lesion", "nolesion",
     "NO_LESION", "no_lesion", "none", "Unknown_XYZ", "benign", "Benign ", " 2 ",
     "Infinity", "-inf", "1_0", "0_1.5", "+1.9", "2.", ".5", "-0.5", "-1.0",
     "~No~Lesion~"}

Tokens ==
    {"no", "lesion", "malig", "benig", "none", "NO", "X", "_", " ", "0", "1", "2",
     "3", ".", "-", "nan", "inf"}

RECURSIVE Words(_)
Words(n) ==
    IF n = 0 THEN {""}
    ELSE LET W == Words(n - 1) IN W \cup {w \o t : w \in W, t \in Tokens}

NumberInputs ==
    {PyInt(n) : n \in -1..3}
    \cup {PyFloat(neg, ip, fd) : neg \in BOOLEAN, ip \in 0..3, fd \in {0, 5, 9}}
    \cup {PyNaN, PyInf(FALSE), PyInf(TRUE), PyBool(TRUE), PyBool(FALSE)}

NormInputs == {PyText(s) : s \in NamedLabels \cup Words(MaxParts)} \cup NumberInputs

InitNorm ==
    /\ nx \in NormInputs
    /\ nres = NoResult
    /\ nagain = NoResult
    /\ ColsIdle
    /\ MainIdle
    /\ DownloadIdle

\* one call normalize_label(nx)
Normalize ==
    /\ nres = NoResult
    /\ nres' = normalize_label(nx)
    /\ UNCHANGED <<nx, nagain, colsVars, mainVars, dlVars>>

\* a second call, normalize_label(label) on the label the first call returned
Renormalize ==
    /\ nres # NoResult
    /\ ~nres.raised
    /\ nagain = NoResult
    /\ nagain' = normalize_label(PyText(nres.val))
    /\ UNCHANGED <<nx, nres, colsVars, mainVars, dlVars>>

NextNorm ==
    \/ Normalize
    \/ Renormalize

SpecNorm == InitNorm /\ [][NextNorm]_vars

(***************************************************************************)
(* autodetect_label_col                                                    *)
(***************************************************************************)
\* c.lower().strip().replace(" ", "").replace(" ", "")
Lowered(c) == RemoveChar(RemoveChar(Strip(Lower(c)), " "), "~")

priority_exact ==
    <<"lesion", "lesion_class", "lesionclass", "label", "class", "target",
      "gt", "groundtruth", "y", "category">>

KeywordsWithDiagnosis ==
    <<"lesion", "label", "class", "target", "gt", "truth", "category", "diagnosis">>
keywords == <<"lesion", "label", "class", "target", "gt", "truth", "category">>

\* lowered = {c: ... for c in df.columns}, in column order
RECURSIVE LoweredFrom(_, _)
LoweredFrom(columns, j) ==
    IF j > Len(columns) THEN <<>>
    ELSE <<Lowered(columns[j])>> \o LoweredFrom(columns, j + 1)

LoweredDict(columns) == LoweredFrom(columns, 1)

\* the inner loop "for orig, low in lowered.items(): if <test>: return orig":
\* the first of the positions that pass the test, 0 when none does
FirstColumn(hits) == IF hits = {} THEN 0 ELSE SetMin(hits)

\* the column the inner loop returns, or the result of the remaining loops
ReturnOr(columns, j, rest) == IF j # 0 THEN columns[j] ELSE rest

\* for k in priority_exact: for orig, low in lowered.items(): if low == k: return orig
\* ("" when the loops end without a return)
RECURSIVE ExactLoop(_, _, _)
ExactLoop(columns, low, k) ==
    IF k > Len(priority_exact) THEN ""
    ELSE ReturnOr(columns,
                  FirstColumn({j \in 1..Len(low) : low[j] = priority_exact[k]}),
                  ExactLoop(columns, low, k + 1))

\* for kw in keywords: for orig, low in lowered.items(): if kw in low: return orig
RECURSIVE KeywordLoop(_, _, _)
KeywordLoop(columns, low, k) ==
    IF k > Len(keywords) THEN ""
    ELSE ReturnOr(columns,
                  FirstColumn({j \in 1..Len(low) : Contains(low[j], keywords[k])}),
                  KeywordLoop(columns, low, k + 1))

AutodetectFirstColumn(columns) ==
    LET low == LoweredDict(columns)
        exact == {j \in 1..Len(columns) : \E k \in 1..Len(priority_exact) : low[j] = priority_exact[k]}
    IN  IF exact # {} THEN columns[CHOOSE j \in exact : \A i \in exact : j <= i]
        ELSE KeywordLoop(columns, low, 1)
autodetect_label_col(columns) ==
    LET low == LoweredDict(columns)
        e == ExactLoop(columns, low, 1)
    IN  IF e # "" THEN e ELSE KeywordLoop(columns, low, 1)

(***************************************************************************)
(* Headers for autodetect_label_col: every list of 1..MaxCols distinct     *)
(* names.  read_csv never yields an empty or a repeated column name.       *)
(***************************************************************************)
ColumnNames ==
    {"UID", "Label", "Category", "Diagnosis", " Lesion ", "Ground~Truth", "GT", "y",
     "my_class", "x_label", "Institution", "has_T2", "Lesion_Class", "Target X",
     "LABEL "}

Headers ==
    UNION {{h \in [1..n -> ColumnNames] : \A i, j \in 1..n : i # j => h[i] # h[j]} :
           n \in 1..MaxCols}

InitCols ==
    /\ cols \in Headers
    /\ detected = "<not called>"
    /\ NormIdle
    /\ MainIdle
    /\ DownloadIdle

\* one call autodetect_label_col(df)
Autodetect ==
    /\ detected = "<not called>"
    /\ detected' = autodetect_label_col(cols)
    /\ UNCHANGED <<cols, normVars, mainVars, dlVars>>

NextCols == Autodetect

SpecCols == InitCols /\ [][NextCols]_vars

(***************************************************************************)
(* row_has_all_modalities and the pieces of main                           *)
(***************************************************************************)
Range(seq) == {seq[i] : i \in 1..Len(seq)}

\* REQUIRED_GROUPS, and its keys in insertion order
GroupNames == <<"Pre^Post2", "Pre^Post4">>
REQUIRED_GROUPS ==
    [g \in Range(GroupNames) |->
        IF g = "Pre^Post2" THEN <<"has_Pre", "has_Post_1", "has_T2">>
        ELSE <<"has_Pre", "has_Post_1", "has_Post_2", "has_Post_3", "has_Post_4">>]

\* bool(v): False, 0, 0.0 and "" are false; every other value, nan included, is true
Truthy(v) ==
    CASE v.t = "bool" -> v.ip = 1
      [] v.t = "int" -> v.ip # 0
      [] v.t = "float" -> v.ip # 0 \/ v.fd # 0
      [] v.t = "str" -> v.s # ""
      [] OTHER -> TRUE

\* row.get(m, default)
RowGet(row, m, default) == IF m \in DOMAIN row THEN row[m] ELSE default

RowHasAllDefaultTrue(row, modalities) ==
    \A k \in 1..Len(modalities) : Truthy(RowGet(row, modalities[k], PyBool(TRUE)))
row_has_all_modalities(row, modalities) ==
    \A k \in 1..Len(modalities) : Truthy(RowGet(row, modalities[k], PyBool(FALSE)))

\* label_col = args.label_col.strip(); if label_col == "": autodetect
ResolveOrFirstColumn(arg, columns) ==
    LET a == IF Strip(arg) = "" THEN autodetect_label_col(columns) ELSE Strip(arg)
    IN  IF a = "" \/ a \notin Range(columns) THEN columns[Len(columns)] ELSE a
ResolveLabelCol(arg, columns) ==
    IF Strip(arg) = "" THEN autodetect_label_col(columns) ELSE Strip(arg)

\* label_col == "" or label_col not in df.columns
LabelColNotFound(lc, columns) == lc = "" \/ lc \notin Range(columns)

\* df[name] = values: a new column goes last, an existing one is overwritten
SetColumn(table, name, values) ==
    [columns |-> IF name \in Range(table.columns) THEN table.columns
                 ELSE Append(table.columns, name),
     rows |-> [i \in 1..Len(table.rows) |->
                  [c \in DOMAIN table.rows[i] \cup {name} |->
                      IF c = name THEN values[i] ELSE table.rows[i][c]]]]

\* df.apply(lambda r: row_has_all_modalities(r, mods), axis=1)
GroupMask(table, mods) ==
    [i \in 1..Len(table.rows) |-> row_has_all_modalities(table.rows[i], mods)]

\* int(mask.sum())
MaskSum(mask) == Cardinality({i \in 1..Len(mask) : mask[i]})

\* sub["Lesion_Normalized"].value_counts(): the values that occur, with their counts
ValueCounts(table, mask) ==
    LET members == {i \in 1..Len(table.rows) : mask[i]}
        seen == {table.rows[i]["Lesion_Normalized"].s : i \in members}
    IN  [v \in seen |->
            Cardinality({i \in members : table.rows[i]["Lesion_Normalized"].s = v})]

\* for c in classes: class_counts[gname][c] = int(vc.get(c, 0))
ClassCountsWholeTable(table, mask) ==
    LET vc == ValueCounts(table, [i \in 1..Len(mask) |-> TRUE])
    IN  [c \in Range(Classes) |-> IF c \in DOMAIN vc THEN vc[c] ELSE 0]
ClassCounts(table, mask) ==
    LET vc == ValueCounts(table, mask)
    IN  [c \in Range(Classes) |-> IF c \in DOMAIN vc THEN vc[c] ELSE 0]

IdColumns == {"UID", "Institution", "Split", "Fold", "Path"}

\* export_cols
ExportColsAll(columns) == columns
ExportCols(columns) ==
    Append(SelectSeq(columns, LAMBDA c : StartsWith(c, "has_") \/ c \in IdColumns),
           "Lesion_Normalized")

\* a cell as to_csv writes it: a missing value is the empty field
CsvCell(v) == IF v.t = "nan" THEN "" ELSE PyStr(v)

\* df.loc[mask, export_cols], the rows kept in table order
RECURSIVE Loc(_, _, _, _)
Loc(table, mask, ecols, i) ==
    IF i > Len(table.rows) THEN <<>>
    ELSE (IF mask[i]
          THEN <<[k \in 1..Len(ecols) |-> CsvCell(table.rows[i][ecols[k]])]>>
          ELSE <<>>) \o Loc(table, mask, ecols, i + 1)

\* f"task1_index_{gname.replace(en dash,'-').replace(em dash,'-').replace(' ','_')}.csv"
IndexFileName(gname) ==
    "task1_index_"
    \o ReplaceChar(ReplaceChar(ReplaceChar(gname, "^", "-"), "|", "-"), " ", "_")
    \o ".csv"

\* writing a file creates it or replaces its contents
WriteFileAppend(dir, name, contents) ==
    [n \in DOMAIN dir \cup {name} |->
        IF n # name THEN dir[n]
        ELSE IF n \in DOMAIN dir
            THEN [columns |-> dir[n].columns, rows |-> dir[n].rows \o contents.rows]
        ELSE contents]
WriteFile(dir, name, contents) ==
    [n \in DOMAIN dir \cup {name} |-> IF n = name THEN contents ELSE dir[n]]

\* sub.to_csv(out_csv) for every group, in the order of group_masks
RECURSIVE ExportLoop(_, _, _, _, _)
ExportLoop(dir, table, masks, ecols, g) ==
    IF g > Len(GroupNames) THEN dir
    ELSE ExportLoop(
             WriteFile(dir, IndexFileName(GroupNames[g]),
                       [columns |-> ecols,
                        rows |-> Loc(table, masks[GroupNames[g]], ecols, 1)]),
             table, masks, ecols, g + 1)

(***************************************************************************)
(* main, statement by statement.                                           *)
(***************************************************************************)
\* lines 60-70: read the table, resolve the label column or raise ValueError
ResolveLabelColumn ==
    /\ pc = "start"
    /\ df' = meta
    /\ \E lc \in {ResolveLabelCol(argv, meta.columns)} :
           /\ label_col' = lc
           /\ IF LabelColNotFound(lc, meta.columns)
              THEN /\ pc' = "failed"
                   /\ error' = [type |-> "ValueError",
                                message |-> "Label column not found. Available columns:",
                                columns |-> meta.columns]
              ELSE /\ pc' = "normalize"
                   /\ UNCHANGED error
    /\ UNCHANGED <<meta, argv, group_masks, group_counts, class_counts, out_dir,
                   normVars, colsVars, rerunVars, dlVars>>

\* line 72: df["Lesion_Normalized"] = df[label_col].map(normalize_label)
MapNormalize(table, lc) ==
    [i \in 1..Len(table.rows) |-> normalize_label(table.rows[i][lc])]

NormalizeLabels ==
    /\ pc = "normalize"
    /\ \E res \in {MapNormalize(df, label_col)} :
           IF \E i \in 1..Len(res) : res[i].raised
           THEN /\ pc' = "failed"
                /\ error' = [type |-> "Exception", message |-> "normalize_label",
                             columns |-> <<>>]
                /\ UNCHANGED df
           ELSE /\ pc' = "coverage"
                /\ \E values \in {[i \in 1..Len(res) |-> PyText(res[i].val)]} :
                       df' = SetColumn(df, "Lesion_Normalized", values)
                /\ UNCHANGED error
    /\ UNCHANGED <<meta, argv, label_col, group_masks, group_counts, class_counts,
                   out_dir, normVars, colsVars, rerunVars, dlVars>>

\* lines 74-92: the masks, the counts and modality_distribution.png
GroupCoverage ==
    /\ pc = "coverage"
    /\ LET masks == [g \in Range(GroupNames) |-> GroupMask(df, REQUIRED_GROUPS[g])]
           counts == [g \in Range(GroupNames) |-> MaskSum(masks[g])]
       IN  /\ group_masks' = masks
           /\ group_counts' = counts
           /\ out_dir' = WriteFile(out_dir, "modality_distribution.png",
                  [columns |-> GroupNames,
                   rows |-> <<[k \in 1..Len(GroupNames) |-> counts[GroupNames[k]]]>>])
    /\ pc' = "classes"
    /\ UNCHANGED <<meta, argv, df, label_col, class_counts, error, normVars, colsVars,
                   rerunVars, dlVars>>

\* lines 94-122: class_counts and class_distribution.png
ClassDistribution ==
    /\ pc = "classes"
    /\ LET counts == [g \in Range(GroupNames) |-> ClassCounts(df, group_masks[g])]
       IN  /\ class_counts' = counts
           /\ out_dir' = WriteFile(out_dir, "class_distribution.png",
                  [columns |-> Classes,
                   rows |-> [k \in 1..Len(GroupNames) |->
                                [c \in 1..Len(Classes) |-> counts[GroupNames[k]][Classes[c]]]]])
    /\ pc' = "export"
    /\ UNCHANGED <<meta, argv, df, label_col, group_masks, group_counts, error,
                   normVars, colsVars, rerunVars, dlVars>>

\* lines 124-132: one index CSV per group
ExportIndices ==
    /\ pc = "export"
    /\ out_dir' = ExportLoop(out_dir, df, group_masks, ExportCols(df.columns), 1)
    /\ pc' = "done"
    /\ UNCHANGED <<meta, argv, df, label_col, group_masks, group_counts, class_counts,
                   error, normVars, colsVars, rerunVars, dlVars>>

(***************************************************************************)
(* The metadata tables of the model.  The header is the one                *)
(* download_val.py writes (UID, Institution, Split, Fold, Path, flags)     *)
(* followed by a label column, with some columns left out; a table has     *)
(* 1..MaxRows rows.                                                        *)
(***************************************************************************)
FlagColumns ==
    <<"has_Pre", "has_Post_1", "has_Post_2", "has_Post_3", "has_Post_4", "has_T2">>

FullHeader == <<"UID", "Institution", "Split", "Fold", "Path">> \o FlagColumns

\* the column sets a table may lack
AbsentChoices == {{}, {"has_T2"}, {"Fold", "Path"}}
LabelColumnChoices == {"Lesion", "Diagnosis"}
ArgChoices == {"", " Diagnosis ", "Split"}

\* a flag field of the file: a boolean, an empty field (nan), or a spelling
\* read_csv does not take for a boolean
AllFlags(v) == [m \in Range(FlagColumns) |-> v]
OneOdd(odd, v) == [m \in Range(FlagColumns) |-> IF m = odd THEN v ELSE PyBool(TRUE)]

FlagPatterns ==
    {AllFlags(PyBool(TRUE)), AllFlags(PyBool(FALSE)),
     OneOdd("has_T2", PyBool(FALSE)), OneOdd("has_Post_4", PyBool(FALSE)),
     OneOdd("has_T2", PyNaN), OneOdd("has_T2", PyText("no"))}

LabelCells == {PyInt(0), PyText("benign"), PyText("Unknown_XYZ")}

RowKinds == FlagPatterns \X LabelCells

MakeRow(header, labelName, i, kind) ==
    [c \in Range(header) |->
        CASE c \in Range(FlagColumns) -> kind[1][c]
          [] c = labelName -> kind[2]
          [] c = "UID" -> PyText("case" \o NatToStr(i))
          [] c = "Fold" -> PyInt(0)
          [] c = "Split" -> PyText("val")
          [] c = "Institution" -> PyText("A")
          [] OTHER -> PyText("p")]

\* pd.read_csv types a column as a whole: when some field of it is text that
\* is neither a number nor a boolean, its other fields stay text as well
\* ("True", "False", "0"); an empty field is nan in either case
AsRead(rows, c, v) ==
    IF v.t \in {"bool", "int"} /\ (\E i \in 1..Len(rows) : rows[i][c].t = "str")
    THEN PyText(PyStr(v))
    ELSE v

ReadCsv(columns, rows) ==
    [columns |-> columns,
     rows |-> [i \in 1..Len(rows) |-> [c \in DOMAIN rows[i] |-> AsRead(rows, c, rows[i][c])]]]

Header(absent, labelName) ==
    SelectSeq(FullHeader, LAMBDA c : c \notin absent) \o <<labelName>>

MakeTable(absent, labelName, kinds) ==
    ReadCsv(Header(absent, labelName),
            [i \in 1..Len(kinds) |-> MakeRow(Header(absent, labelName), labelName, i, kinds[i])])

Init ==
    /\ \E absent \in AbsentChoices, labelName \in LabelColumnChoices, n \in 1..MaxRows :
           \E kinds \in [1..n -> RowKinds] :
               meta = MakeTable(absent, labelName, kinds)
    /\ argv \in ArgChoices
    /\ pc = "start"
    /\ df = NoTable
    /\ label_col = ""
    /\ group_masks = <<>>
    /\ group_counts = <<>>
    /\ class_counts = <<>>
    /\ out_dir = NoFiles
    /\ error = ""
    /\ run = 1
    /\ first = NoRun
    /\ NormIdle
    /\ ColsIdle
    /\ DownloadIdle

Next ==
    \/ ResolveLabelColumn
    \/ NormalizeLabels
    \/ GroupCoverage
    \/ ClassDistribution
    \/ ExportIndices

Spec == Init /\ [][Next]_vars

(***************************************************************************)
(* Two invocations of main on the same input.  The second is a new         *)
(* process: no local of the first survives, the files under --out do.      *)
(***************************************************************************)
\* what an invocation ends with
EndOfRun ==
    [pc |-> pc, error |-> error, label_col |-> label_col, group_masks |-> group_masks,
     group_counts |-> group_counts, class_counts |-> class_counts, files |-> out_dir]

RunAgain ==
    /\ pc \in {"done", "failed"}
    /\ run = 1
    /\ run' = 2
    /\ first' = EndOfRun
    /\ pc' = "start"
    /\ df' = NoTable
    /\ label_col' = ""
    /\ group_masks' = <<>>
    /\ group_counts' = <<>>
    /\ class_counts' = <<>>
    /\ error' = ""
    /\ UNCHANGED <<meta, argv, out_dir, normVars, colsVars, dlVars>>

RerunFlagPatterns ==
    {AllFlags(PyBool(TRUE)), OneOdd("has_T2", PyBool(FALSE)),
     OneOdd("has_Post_4", PyBool(FALSE))}
RerunLabelCells == {PyInt(0), PyText("Unknown_XYZ")}

InitRerun ==
    /\ \E absent \in AbsentChoices, labelName \in LabelColumnChoices, n \in 1..MaxRows :
           \E kinds \in [1..n -> RerunFlagPatterns \X RerunLabelCells] :
               meta = MakeTable(absent, labelName, kinds)
    /\ argv \in ArgChoices
    /\ pc = "start"
    /\ df = NoTable
    /\ label_col = ""
    /\ group_masks = <<>>
    /\ group_counts = <<>>
    /\ class_counts = <<>>
    /\ out_dir = NoFiles
    /\ error = ""
    /\ run = 1
    /\ first = NoRun
    /\ NormIdle
    /\ ColsIdle
    /\ DownloadIdle

NextRerun ==
    \/ ResolveLabelColumn
    \/ NormalizeLabels
    \/ GroupCoverage
    \/ ClassDistribution
    \/ ExportIndices
    \/ RunAgain

SpecRerun == InitRerun /\ [][NextRerun]_vars

(***************************************************************************)
(* download_val.py.  An item of the split is a record: its UID and         *)
(* Institution, keys = the modalities that have an Image_ and an Affine_   *)
(* key, vols = those whose image and affine are not None, and raises =     *)
(* where handling it raises an exception: "" nowhere, "fetch" in ds[idx],  *)
(* a modality name while that modality is converted and saved.             *)
(***************************************************************************)
Modalities == <<"Pre", "T2">>

\* list_modalities(sample): the Image_ keys that have an Affine_ key, in key order
list_modalities(sample) == SelectSeq(Modalities, LAMBDA m : m \in sample.keys)

\* sorted(set(all_mods) | set(list_modalities(ds[i]))) over the first min(10, total) items
RECURSIVE ScanModalities(_, _, _)
ScanModalities(items, i, found) ==
    IF i > Len(items) \/ i > 10 THEN SelectSeq(Modalities, LAMBDA m : m \in found)
    ELSE ScanModalities(items, i + 1, found \cup Range(list_modalities(items[i])))

\* lines 98-103
DetectModalities(items) ==
    IF list_modalities(items[1]) # <<>> THEN list_modalities(items[1])
    ELSE ScanModalities(items, 1, {})

\* the modality loop of lines 127-130 from position k on: the modalities whose
\* file is written, and whether save_modality raised.  save_modality returns
\* False without writing when the image or the affine is None.
RECURSIVE SaveFrom(_, _, _, _)
SaveFrom(item, mods, k, written) ==
    IF k > Len(mods) THEN [written |-> written, raised |-> FALSE]
    ELSE IF mods[k] \notin item.vols THEN SaveFrom(item, mods, k + 1, written)
    ELSE IF item.raises = mods[k] THEN [written |-> written, raised |-> TRUE]
    ELSE SaveFrom(item, mods, k + 1, written \cup {mods[k]})

\* the body of the try block, lines 112-143: "failed" = an exception reached
\* the except clause, "excluded" = continue, "empty" = nothing saved
Kind(item, excluded, out) ==
    IF item.raises = "fetch" THEN "failed"
    ELSE IF item.inst \in excluded THEN "excluded"
    ELSE IF out.raised THEN "failed"
    ELSE IF out.written = {} THEN "empty"
    ELSE "saved"

Body(item, mods, excluded) ==
    [kind |-> Kind(item, excluded, SaveFrom(item, mods, 1, {})),
     written |-> IF item.raises = "fetch" \/ item.inst \in excluded THEN {}
                 ELSE SaveFrom(item, mods, 1, {}).written]

\* the metadata record of lines 134-141
MetaRecord(item, mods, written) ==
    [UID |-> item.uid, Institution |-> item.inst, Split |-> item.split,
     Fold |-> item.fold, Path |-> <<item.inst, item.uid>>,
     has |-> [m \in Range(mods) |-> m \in written]]

\* if args.max_samples and saved >= args.max_samples
MaxReachedLate(n, s) == n # 0 /\ s > n
MaxReached(n, s) == n # 0 /\ s >= n

\* the index the loop visits after the body ended as kind at index i
NextIndexStopOnFailure(kind, i, total) == IF kind = "failed" THEN total ELSE i + 1
NextIndex(kind, i, total) == i + 1

\* lines 98-107: the probe of ds[0], all_mods, the counters.  An exception in
\* ds[0] (an empty split, a failed fetch) is outside every try block.
Probe ==
    /\ dpc = "start"
    /\ IF ds = <<>> \/ ds[1].raises = "fetch"
       THEN /\ dpc' = "aborted"
            /\ UNCHANGED all_mods
       ELSE /\ dpc' = "loop"
            /\ all_mods' = DetectModalities(ds)
    /\ UNCHANGED <<ds, exclude, max_samples, idx, visited, saved, errors, meta_records,
                   disk, csv, normVars, colsVars, mainVars>>

\* lines 108-146: one iteration of the loop, for index idx
VisitIndex ==
    /\ dpc = "loop"
    /\ idx < Len(ds)
    /\ ~MaxReached(max_samples, saved)
    /\ \E b \in {Body(ds[idx + 1], all_mods, exclude)} :
           /\ disk' = disk \cup {<<ds[idx + 1].inst, ds[idx + 1].uid, m>> : m \in b.written}
           /\ errors' = IF b.kind = "failed" THEN errors + 1 ELSE errors
           /\ saved' = IF b.kind = "saved" THEN saved + 1 ELSE saved
           /\ meta_records' =
                  IF b.kind = "saved"
                  THEN Append(meta_records, MetaRecord(ds[idx + 1], all_mods, b.written))
                  ELSE meta_records
           /\ idx' = NextIndex(b.kind, idx, Len(ds))
    /\ visited' = visited \cup {idx}
    /\ UNCHANGED <<ds, exclude, max_samples, all_mods, csv, dpc, normVars, colsVars,
                   mainVars>>

\* the range is exhausted (line 108) or the break of lines 109-110
LeaveLoop ==
    /\ dpc = "loop"
    /\ idx >= Len(ds) \/ MaxReached(max_samples, saved)
    /\ dpc' = "write"
    /\ UNCHANGED <<ds, exclude, max_samples, all_mods, idx, visited, saved, errors,
                   meta_records, disk, csv, normVars, colsVars, mainVars>>

\* lines 148-155: metadata.csv, written only when there is a record
WriteMetadata ==
    /\ dpc = "write"
    /\ csv' = IF meta_records # <<>> THEN [written |-> TRUE, rows |-> meta_records] ELSE csv
    /\ dpc' = "done"
    /\ UNCHANGED <<ds, exclude, max_samples, all_mods, idx, visited, saved, errors,
                   meta_records, disk, normVars, colsVars, mainVars>>

\* the items of the model
ItemKinds ==
    {[inst |-> "A", vols |-> {"Pre", "T2"}, raises |-> ""],
     [inst |-> "A", vols |-> {"Pre"}, raises |-> ""],
     [inst |-> "A", vols |-> {}, raises |-> ""],
     [inst |-> "RSH", vols |-> {"Pre", "T2"}, raises |-> ""],
     [inst |-> "A", vols |-> {"Pre", "T2"}, raises |-> "fetch"],
     [inst |-> "A", vols |-> {"Pre", "T2"}, raises |-> "T2"]}

\* the modality keys of the dataset's items
KeyChoices == {{"Pre", "T2"}, {"Pre"}}
ExcludeChoices == {{}, {"RSH"}}

MakeItem(i, kind, keys) ==
    [uid |-> "case" \o NatToStr(i), inst |-> kind.inst, split |-> "val", fold |-> 0,
     keys |-> keys, vols |-> kind.vols \cap keys, raises |-> kind.raises]

InitDownload ==
    /\ \E n \in 0..MaxItems, keys \in KeyChoices :
           \E kinds \in [1..n -> ItemKinds] :
               ds = [i \in 1..n |-> MakeItem(i, kinds[i], keys)]
    /\ exclude \in ExcludeChoices
    /\ max_samples \in 0..MaxSamples
    /\ all_mods = <<>>
    /\ idx = 0
    /\ visited = {}
    /\ saved = 0
    /\ errors = 0
    /\ meta_records = <<>>
    /\ disk = {}
    /\ csv = NoCsv
    /\ dpc = "start"
    /\ NormIdle
    /\ ColsIdle
    /\ MainIdle

NextDownload ==
    \/ Probe
    \/ VisitIndex
    \/ LeaveLoop
    \/ WriteMetadata

SpecDownload == InitDownload /\ [][NextDownload]_vars

(***************************************************************************)
(* Claims about normalize_label (checked under SpecNorm).                  *)
(***************************************************************************)
Called == nres # NoResult
Text(x) == Lower(Strip(PyStr(x)))

MalignantExamples ==
    {PyInt(0), PyText("0"), PyText("Malignant"), PyText("MALIG"), PyText("malig_type_a")}
NoLesionExamples ==
    {PyInt(2), PyText("2"), PyText("No Lesion"), PyText("nolesion"), PyText("NO_LESION")}

\* the fixed table of the specification, written out
TableOf(i) == CASE i = 0 -> "malignant" [] i = 1 -> "benign" [] i = 2 -> "no lesion"

\* the integer cast of a value that parses as a finite number, else -1
NumberCast(x) ==
    IF x.t \in {"int", "float"} THEN (IF x.neg THEN -x.ip ELSE x.ip)
    ELSE IF x.t = "str" /\ ParseFloat(x.s).ok /\ ParseFloat(x.s).kind = "fin"
        THEN (IF ParseFloat(x.s).neg THEN -ParseFloat(x.s).ip ELSE ParseFloat(x.s).ip)
    ELSE -1

\* C1: the listed malignant spellings give "malignant", the listed no-lesion
\* spellings give "no lesion", and every value that parses as a number whose
\* integer cast is 0, 1 or 2 gives the table's entry for that integer.
C1_NumericAndExamples ==
    Called =>
        /\ nx \in MalignantExamples => nres = [raised |-> FALSE, val |-> "malignant"]
        /\ nx \in NoLesionExamples => nres = [raised |-> FALSE, val |-> "no lesion"]
        /\ NumberCast(nx) \in 0..2 =>
               nres = [raised |-> FALSE, val |-> TableOf(NumberCast(nx))]

\* a fractional text whose integer cast is 0 has been mapped through the table
C1_Witness == nx = PyText("0_1.5") /\ nres = [raised |-> FALSE, val |-> "benign"]

Canonical == {"malignant", "benign", "no lesion"}

\* C2: normalize_label never raises, and a value it does not classify comes
\* back as its stripped, lower-cased text: "Unknown_XYZ" as "unknown_xyz",
\* nan as "nan", an infinity as "inf", 3 as "3", the empty text as "".
C2_Total ==
    Called =>
        /\ ~nres.raised
        /\ nres.val \notin Canonical => nres.val = Text(nx)
        /\ nx = PyText("Unknown_XYZ") => nres.val = "unknown_xyz"
        /\ nx = PyNaN => nres.val = "nan"
        /\ nx = PyInf(FALSE) => nres.val = "inf"
        /\ nx = PyInf(TRUE) => nres.val = "-inf"
        /\ nx = PyInt(3) => nres.val = "3"
        /\ nx = PyFloat(FALSE, 3, 0) => nres.val = "3.0"
        /\ nx = PyText("") => nres.val = ""

\* an infinity (OverflowError inside the try block) came back as text
C2_Witness == nx = PyInf(TRUE) /\ nres = [raised |-> FALSE, val |-> "-inf"]

\* the label is not mapped by the numeric table and names neither malignant nor benign
PlainText(x) ==
    /\ NumberCast(x) \notin 0..2
    /\ ~Contains(Text(x), "malig")
    /\ ~Contains(Text(x), "benig")

NoLesionAliases == {"nolesion", "no_lesion", "none"}

\* C3 as stated: such a label gives "no lesion" exactly when its text contains
\* "no" and "lesion" or is one of the aliases nolesion, no_lesion, none.
C3_AsStated ==
    (Called /\ PlainText(nx)) =>
        (nres.val = "no lesion" <=>
            \/ (Contains(Text(nx), "no") /\ Contains(Text(nx), "lesion"))
            \/ Text(nx) \in NoLesionAliases)

\* C3 (amended): such a label gives "no lesion" exactly when its text contains
\* both "no" and "lesion"; "nolesion" and "no_lesion" do, so they give
\* "no lesion"; "none" does not and is passed through as "none".
C3_NoLesionRule ==
    (Called /\ PlainText(nx)) =>
        /\ nres.val = "no lesion" <=>
               (Contains(Text(nx), "no") /\ Contains(Text(nx), "lesion"))
        /\ Text(nx) \in {"nolesion", "no_lesion"} => nres.val = "no lesion"
        /\ Text(nx) = "none" => nres.val = "none"

\* the alias no_lesion has been normalized
C3_Witness == nx = PyText("no_lesion") /\ nres = [raised |-> FALSE, val |-> "no lesion"]

(***************************************************************************)
(* Claims about autodetect_label_col (checked under SpecCols).             *)
(***************************************************************************)
Detected == detected # "<not called>"

\* a column name lower-cased with its spaces and non-breaking spaces removed
Squeezed(c) == RemoveChar(RemoveChar(Lower(c), " "), "~")

SqueezedCols == [j \in 1..Len(cols) |-> Squeezed(cols[j])]

ExactRanks(sq) ==
    {k \in 1..Len(priority_exact) : \E j \in 1..Len(sq) : sq[j] = priority_exact[k]}

KeywordHits(sq) ==
    {h \in (1..Len(keywords)) \X (1..Len(sq)) : Contains(sq[h[2]], keywords[h[1]])}

\* C6: with an exact match the column of the earliest canonical name is
\* returned whatever the column order (<<UID, Label, Category>> gives Label);
\* without one, the first hit by keyword position, then column position;
\* without any hit, nothing.
C6_TwoPhaseLookup ==
    Detected =>
        \A sq \in {SqueezedCols} :
        \A ranks \in {ExactRanks(sq)} :
        \A hits \in {KeywordHits(sq)} :
            /\ ranks # {} =>
                   LET k == CHOOSE r \in ranks : \A q \in ranks : r <= q
                       j == CHOOSE i \in 1..Len(sq) :
                                /\ sq[i] = priority_exact[k]
                                /\ \A m \in 1..(i - 1) : sq[m] # priority_exact[k]
                   IN  detected = cols[j]
            /\ (ranks = {} /\ hits # {}) =>
                   LET h == CHOOSE a \in hits :
                                \A b \in hits : a[1] < b[1] \/ (a[1] = b[1] /\ a[2] <= b[2])
                   IN  detected = cols[h[2]]
            /\ (ranks = {} /\ hits = {}) => detected = ""
            /\ cols = <<"UID", "Label", "Category">> => detected = "Label"
            /\ cols = <<"Category", "UID", "Label">> => detected = "Label"

\* an exact match later in the header wins over an earlier keyword column
C6_Witness == cols = <<"x_label", "Category", "GT">> /\ detected = "GT"

\* a keyword-only header: "label" ranks before "class" although my_class comes first
C6_WitnessKeyword == cols = <<"my_class", "x_label">> /\ detected = "x_label"

\* C7 as stated: on the header <<UID, Diagnosis>> the column Diagnosis is selected.
C7_AsStated == (Detected /\ cols = <<"UID", "Diagnosis">>) => detected = "Diagnosis"

\* C7 (amended): on the header <<UID, Diagnosis>> autodetection selects no
\* column: "diagnosis" is no canonical name and contains no keyword.
C7_DiagnosisNotDetected == (Detected /\ cols = <<"UID", "Diagnosis">>) => detected = ""

\* autodetection has run on that header
C7_Witness == Detected /\ cols = <<"UID", "Diagnosis">>

(***************************************************************************)
(* Claims about main (specification Spec).                                 *)
(***************************************************************************)
MasksComputed == pc \in {"classes", "export", "done"}
CountsComputed == pc \in {"export", "done"}
Exported == pc = "done"

\* a flag value that counts as true: the boolean true, or text that matches
\* one of 1, true, t, yes whatever its case
FlagTrue(v) == v = PyBool(TRUE) \/ (v.t = "str" /\ Lower(v.s) \in {"1", "true", "t", "yes"})

\* C4 as stated: a case belongs to a group exactly when every flag of the
\* group's requirement list is present and counts as true; text such as "no"
\* and an empty cell count as false.
C4_AsStated ==
    MasksComputed =>
        \A g \in Range(GroupNames), i \in 1..Len(meta.rows) :
            group_masks[g][i] <=>
                \A k \in 1..Len(REQUIRED_GROUPS[g]) :
                    /\ REQUIRED_GROUPS[g][k] \in DOMAIN meta.rows[i]
                    /\ FlagTrue(meta.rows[i][REQUIRED_GROUPS[g][k]])

\* the table has no column for one of the flags the group requires
LacksFlag(g) ==
    \E k \in 1..Len(REQUIRED_GROUPS[g]) : REQUIRED_GROUPS[g][k] \notin Range(meta.columns)

\* C5: when the table lacks a flag of a group's requirement list, no case is
\* a member of that group whatever its other flags are, and the absence is no
\* error: the run fails only for an unresolved label column, every group has
\* its mask, and a group that lacks no flag is evaluated from its own flags.
C5_AbsentFlagIsFalse ==
    \A g \in Range(GroupNames) :
        LacksFlag(g) =>
            /\ pc = "failed" =>
                   error.type = "ValueError" /\ label_col \notin Range(meta.columns)
            /\ MasksComputed =>
                   /\ DOMAIN group_masks = Range(GroupNames)
                   /\ \A i \in 1..Len(meta.rows) : ~group_masks[g][i]
                   /\ group_counts[g] = 0
                   /\ \A h \in Range(GroupNames) :
                          ~LacksFlag(h) =>
                              \A i \in 1..Len(meta.rows) :
                                  group_masks[h][i] <=>
                                      \A k \in 1..Len(REQUIRED_GROUPS[h]) :
                                          Truthy(meta.rows[i][REQUIRED_GROUPS[h][k]])

\* the table has no has_T2 column, the run ended normally, and the first case
\* is a member of the four-phase group but not of the group that requires T2
C5_Witness ==
    /\ Exported
    /\ "has_T2" \notin Range(meta.columns)
    /\ group_masks["Pre^Post4"][1]
    /\ ~group_masks["Pre^Post2"][1]

\* no label column can be resolved: nothing was supplied and autodetection
\* finds no match, or the supplied name is no column of the table
Unresolvable ==
    IF Strip(argv) = "" THEN autodetect_label_col(meta.columns) = ""
    ELSE Strip(argv) \notin Range(meta.columns)

\* C8: when no label column can be resolved the run ends in a ValueError that
\* lists the available columns, with no mask, no count and no normalized
\* column computed and no file written; it never goes on with a default column.
C8_UnresolvedLabelColumnFails ==
    /\ (pc # "start" /\ Unresolvable) => pc = "failed"
    /\ pc = "failed" =>
           /\ error.type = "ValueError"
           /\ error.columns = meta.columns
           /\ group_masks = <<>>
           /\ group_counts = <<>>
           /\ class_counts = <<>>
           /\ out_dir = NoFiles
           /\ "Lesion_Normalized" \notin Range(df.columns)

\* nothing was supplied, the only label column is named Diagnosis, and the
\* run has failed listing the columns
C8_Witness ==
    /\ pc = "failed"
    /\ argv = ""
    /\ "Diagnosis" \in Range(meta.columns)
    /\ error.columns = meta.columns

\* the member cases of a group, and the normalized label of a case
Members(g) == {i \in 1..Len(df.rows) : group_masks[g][i]}
Normalized(i) == df.rows[i]["Lesion_Normalized"].s
CanonicalSum(g) ==
    class_counts[g]["malignant"] + class_counts[g]["benign"] + class_counts[g]["no lesion"]

\* C9: every group's distribution has exactly the three canonical categories,
\* each count is the number of member cases with that normalized label, and
\* the three counts sum to at most the group's case count, with equality
\* exactly when no member has an unmapped label.
C9_ThreeCategoryCounts ==
    CountsComputed =>
        \A g \in Range(GroupNames) :
            /\ DOMAIN class_counts[g] = Canonical
            /\ \A c \in Canonical :
                   class_counts[g][c] = Cardinality({i \in Members(g) : Normalized(i) = c})
            /\ group_counts[g] = Cardinality(Members(g))
            /\ CanonicalSum(g) <= group_counts[g]
            /\ CanonicalSum(g) = group_counts[g] <=>
                   \A i \in Members(g) : Normalized(i) \in Canonical

\* a group of two members, one with a canonical and one with an unmapped label
C9_Witness ==
    /\ Exported
    /\ \E g \in Range(GroupNames) :
           /\ group_counts[g] = 2
           /\ CanonicalSum(g) = 1
           /\ \E i \in Members(g) : Normalized(i) = "unknown_xyz"

\* the name of a group's index file
IndexFile ==
    [g \in Range(GroupNames) |->
        IF g = "Pre^Post2" THEN "task1_index_Pre-Post2.csv" ELSE "task1_index_Pre-Post4.csv"]

\* the fixed column set: the flag and identifying columns the input has, in
\* input order, then the normalized label
IsIndexColumn(c) ==
    StartsWith(c, "has_") \/ c \in {"UID", "Institution", "Split", "Fold", "Path"}
FixedColumns == SelectSeq(meta.columns, IsIndexColumn) \o <<"Lesion_Normalized">>

\* the members of a group in table order, and a case projected onto columns
MemberSeq(g) == SelectSeq([i \in 1..Len(df.rows) |-> i], LAMBDA i : group_masks[g][i])
Projected(i, columns) == [k \in 1..Len(columns) |-> CsvCell(df.rows[i][columns[k]])]

\* the group's index file exists, has the fixed columns, and its rows are
\* exactly the group's members, in table order, projected onto them
IndexHolds(g) ==
    /\ IndexFile[g] \in DOMAIN out_dir
    /\ out_dir[IndexFile[g]].columns = FixedColumns
    /\ Len(out_dir[IndexFile[g]].rows) = group_counts[g]
    /\ Len(out_dir[IndexFile[g]].rows) = Len(MemberSeq(g))
    /\ \A j \in 1..Len(MemberSeq(g)) :
           out_dir[IndexFile[g]].rows[j] = Projected(MemberSeq(g)[j], FixedColumns)

\* C10 as stated: every group's index CSV holds exactly the group's members
\* projected onto the fixed column set, and never the raw label column.
C10_AsStated ==
    Exported =>
        \A g \in Range(GroupNames) :
            /\ IndexHolds(g)
            /\ label_col \notin Range(out_dir[IndexFile[g]].columns)

\* C10 (amended): every group's index CSV holds exactly the group's members
\* (as many rows as the group's count, also when it is 0) projected onto the
\* fixed column set; the raw label column is among the columns only when it
\* is itself a flag column or an identifying column.
C10_IndexFiles ==
    Exported =>
        /\ DOMAIN out_dir =
               {"modality_distribution.png", "class_distribution.png"}
                   \cup {IndexFile[g] : g \in Range(GroupNames)}
        /\ \A g \in Range(GroupNames) :
               /\ IndexHolds(g)
               /\ label_col \in Range(out_dir[IndexFile[g]].columns) =>
                      IsIndexColumn(label_col)

\* a case with an unmapped label is a row of both index files, and the raw
\* label column Lesion is in neither
C10_Witness ==
    /\ Exported
    /\ label_col = "Lesion"
    /\ "Lesion" \notin Range(out_dir[IndexFile["Pre^Post2"]].columns)
    /\ \E r \in Range(out_dir[IndexFile["Pre^Post2"]].rows) :
           /\ r \in Range(out_dir[IndexFile["Pre^Post4"]].rows)
           /\ r[Len(r)] = "unknown_xyz"

(***************************************************************************)
(* Claims about a repeated normalize_label (specification SpecNorm).       *)
(***************************************************************************)
Renormalized == nagain # NoResult

C15_WitnessCanonical ==
    /\ nx = PyInt(2)
    /\ nres.val = "no lesion"
    /\ nagain.val = "no lesion"

InLoopOrAfter == dpc \in {"loop", "write", "done"}
LoopOver == dpc \in {"write", "done"}

\* handling the item at index i raises an exception: in the fetch, or, when
\* the case is not excluded, while a modality that is exported is saved
Fails(i) ==
    \/ ds[i + 1].raises = "fetch"
    \/ /\ ds[i + 1].inst \notin exclude
       /\ ds[i + 1].raises \in (ds[i + 1].vols \cap Range(all_mods))

\* the item at index i is exported without an exception and saves a modality
Exportable(i) ==
    /\ ~Fails(i)
    /\ ds[i + 1].inst \notin exclude
    /\ ds[i + 1].vols \cap Range(all_mods) # {}

HasRecord(i) == \E k \in 1..Len(meta_records) : meta_records[k].UID = ds[i + 1].uid

\* the rows of metadata.csv
CsvRows == csv.rows

\* C12: the indices are visited in order whatever fails; an item that raises
\* adds one to the error counter and adds no record and no saved case; the
\* loop ends early only because --max-samples is reached, never because of a
\* failure; and metadata.csv then holds the records of the items that succeeded.
C12_ContinueOnError ==
    InLoopOrAfter =>
        /\ visited = 0..(idx - 1)
        /\ errors = Cardinality({i \in visited : Fails(i)})
        /\ \A i \in visited : Fails(i) => ~HasRecord(i)
        /\ saved = Cardinality({i \in visited : ~Fails(i) /\ HasRecord(i)})
        /\ \A i \in visited : Exportable(i) => HasRecord(i)
        /\ (LoopOver /\ idx < Len(ds)) => (max_samples > 0 /\ saved >= max_samples)
        /\ dpc = "done" =>
               /\ csv.written <=> meta_records # <<>>
               /\ \A i \in visited :
                      Exportable(i) =>
                          \E k \in 1..Len(CsvRows) : CsvRows[k].UID = ds[i + 1].uid

\* the run is over, an item failed, and a later item has its row in metadata.csv
C12_Witness ==
    /\ dpc = "done"
    /\ errors = 1
    /\ \E i \in visited, j \in visited :
           /\ i < j
           /\ Fails(i)
           /\ \E k \in 1..Len(CsvRows) : CsvRows[k].UID = ds[j + 1].uid

\* C13: with --max-samples N > 0 there are never more than N saved cases or
\* records, and once N are saved the last index visited is the one that was
\* saved last; only items that are exported count; with N = 0, or when N is
\* not reached, every index is visited.
C13_MaxSamples ==
    InLoopOrAfter =>
        /\ max_samples > 0 =>
               /\ saved <= max_samples
               /\ Len(meta_records) <= max_samples
               /\ Len(CsvRows) <= max_samples
        /\ (max_samples > 0 /\ saved = max_samples) =>
               /\ idx >= 1
               /\ visited = 0..(idx - 1)
               /\ meta_records[saved].UID = ds[idx].uid
        /\ saved = Len(meta_records)
        /\ saved = Cardinality({i \in visited : Exportable(i)})
        /\ (LoopOver /\ (max_samples = 0 \/ saved < max_samples)) =>
               visited = 0..(Len(ds) - 1)

\* --max-samples 1 on three items: the first does not count, the second is
\* saved, the third is never visited
C13_Witness ==
    /\ dpc = "done"
    /\ max_samples = 1
    /\ Len(ds) = 3
    /\ saved = 1
    /\ visited = {0, 1}
    /\ ~Exportable(0)

\* a volume file of the case at index i is on disk
HasFile(i) == \E m \in Range(Modalities) : <<ds[i + 1].inst, ds[i + 1].uid, m>> \in disk

\* C14 as stated: after the loop a case has a row in metadata.csv exactly when
\* a volume file of it was written, the row's flags are true exactly for the
\* modalities written, the saved counter is the number of rows, and no row
\* is of an excluded institution.
C14_AsStated ==
    dpc = "done" =>
        /\ \A i \in 0..(Len(ds) - 1) :
               (\E k \in 1..Len(CsvRows) : CsvRows[k].UID = ds[i + 1].uid) <=> HasFile(i)
        /\ \A k \in 1..Len(CsvRows), m \in Range(Modalities) :
               (m \in DOMAIN CsvRows[k].has /\ CsvRows[k].has[m]) <=>
                   <<CsvRows[k].Institution, CsvRows[k].UID, m>> \in disk
        /\ saved = Len(CsvRows)
        /\ \A k \in 1..Len(CsvRows) : CsvRows[k].Institution \notin exclude

====
